---- MODULE Spec2Model ----
(***************************************************************************)
(* WordHoard text-to-speech dispatch layer.                                *)
(*                                                                         *)
(* The repository holds several builds of utils/tts.ts next to             *)
(* utils/ttsCloud.ts (which itself holds two definitions of the cloud      *)
(* client).  Each build is modelled by its own actions; the variable       *)
(* `build` says which one is running:                                      *)
(*   "tts"   src/src/app/utils/tts.ts      (local engine only)             *)
(*   "p3"    src/unnamed/part_003          (dispatcher, cloud client A)    *)
(*   "p5"    src/unnamed/part_005          (dispatcher, cloud client B)    *)
(*   "p6"    src/unnamed/part_006          (dispatcher, cloud client A)    *)
(*   "p2"    src/unnamed/part_002          (dispatcher, cloud client A)    *)
(*   "cloud" src/src/app/utils/ttsCloud.ts (client A called directly)      *)
(*   "p1"    src/unnamed/part_001          (its voice selection)           *)
(*   "p4"    src/unnamed/part_004          (local engine only)             *)
(* Cloud client A is ttsCloud.ts lines 19-133, client B lines 135-165.     *)
(*                                                                         *)
(* Strings the code inspects (texts, language tags, voice names) are       *)
(* sequences of Unicode code points, so that trim, toLowerCase, startsWith *)
(* includes and the regular expressions are computed, not assumed.         *)
(***************************************************************************)
EXTENDS Integers, Sequences, FiniteSets, TLC

\* Number of speak requests issued in one behaviour.
MaxReq == 2
\* Number of stopTts / stopCloudTts calls in one behaviour.
MaxStops == 1
\* Calls of stopCloudTts where the repeated stop is examined
MaxStopCalls == 2
\* Number of pickVoice calls recorded in one behaviour.
MaxPicks == 2
\* Number of guessLang calls recorded in one behaviour.
MaxGuess == 2
\* Number of utterances whose parameters are recorded in one behaviour.
MaxUtter == 2

Range(s) == {s[i] : i \in 1..Len(s)}

----------------------------------------------------------------------------
(* Strings *)

\* "ja-JP", "en-US", "ja", "en", "other", "ja-JP-KeitaNeural"
JaJP == <<106, 97, 45, 74, 80>>
EnUS == <<101, 110, 45, 85, 83>>
Ja == <<106, 97>>
En == <<101, 110>>
Other == <<111, 116, 104, 101, 114>>
\* "zh-CN"
ZhCN == <<122, 104, 45, 67, 78>>
KeitaNeural == <<106, 97, 45, 74, 80, 45, 75, 101, 105, 116, 97, 78, 101, 117, 114, 97, 108>>
\* "::"
KeySep == <<58, 58>>
\* An argument the caller left out (JavaScript undefined).
Undefined == << -1 >>

\* String.prototype.trim strips these (a sample of WhiteSpace and
\* LineTerminator: TAB, LF, CR, SPACE, NBSP, IDEOGRAPHIC SPACE).
WhiteSpace == {9, 10, 13, 32, 160, 12288}

RECURSIVE TrimStart(_)
TrimStart(s) ==
  IF s = <<>> THEN s
  ELSE IF Head(s) \in WhiteSpace THEN TrimStart(Tail(s)) ELSE s

RECURSIVE TrimEnd(_)
TrimEnd(s) ==
  IF s = <<>> THEN s
  ELSE IF s[Len(s)] \in WhiteSpace THEN TrimEnd(SubSeq(s, 1, Len(s) - 1)) ELSE s

\* (text ?? '').trim()
Trim(s) == IF s = Undefined THEN <<>> ELSE TrimEnd(TrimStart(s))

toLowerCase(s) == [i \in 1..Len(s) |-> IF 65 <= s[i] /\ s[i] <= 90 THEN s[i] + 32 ELSE s[i]]

startsWith(s, p) == Len(s) >= Len(p) /\ SubSeq(s, 1, Len(p)) = p

includes(s, p) == \E i \in 1..(Len(s) - Len(p) + 1) : SubSeq(s, i, i + Len(p) - 1) = p

\* c is in the character range lo-hi of a regular expression
In(c, lo, hi) == lo <= c /\ c <= hi

\* /[\u3040-\u30ff\u3400-\u4dbf\u4e00-\u9fff]/ (part_005 writes the same
\* ranges with the characters themselves)
RE_JA(s) == \E i \in 1..Len(s) :
  In(s[i], 12352, 12543) \/ In(s[i], 13312, 19903) \/ In(s[i], 19968, 40959)
\* /[A-Za-z]/
RE_LATIN(s) == \E i \in 1..Len(s) : In(s[i], 65, 90) \/ In(s[i], 97, 122)
\* /[\u3041-\u3093\u30a1-\u30f3\u4e00-\u9fa0]/, written with the characters
RE_KANA_KANJI(s) == \E i \in 1..Len(s) :
  In(s[i], 12353, 12435) \/ In(s[i], 12449, 12531) \/ In(s[i], 19968, 40864)

\* tts.ts guessLang
guessLang(text, preferJa) ==
  LET t == Trim(text) IN
  IF t = <<>> THEN EnUS
  ELSE IF preferJa THEN JaJP
  ELSE IF RE_JA(t) THEN JaJP
  ELSE IF RE_LATIN(t) THEN EnUS
  ELSE EnUS

\* part_003 guessLang
guessLangP3(text, preferJa) ==
  LET t == Trim(text) IN
  IF preferJa THEN JaJP
  ELSE IF RE_KANA_KANJI(t) THEN JaJP
  ELSE IF RE_LATIN(t) THEN EnUS
  ELSE EnUS

\* part_005 guessLang (the options are ignored)
guessLangP5(text) ==
  IF RE_JA(text) THEN Ja
  ELSE IF RE_LATIN(text) THEN En
  ELSE Other

\* part_002 guessLang
guessLangP2(text) == IF RE_KANA_KANJI(text) THEN JaJP ELSE EnUS

\* part_006 guessLang
guessLangP6(text) == IF RE_KANA_KANJI(text) THEN JaJP ELSE EnUS

normLang(lang) == toLowerCase(IF lang = Undefined THEN <<>> ELSE lang)

----------------------------------------------------------------------------
(* Voices of the host engine *)

\* "Kyoko", "Samantha", "Google US English", "Microsoft Nanami Online (Natural)"
Kyoko ==
  [name |-> <<75, 121, 111, 107, 111>>, lang |-> JaJP, default |-> FALSE]
Samantha ==
  [name |-> <<83, 97, 109, 97, 110, 116, 104, 97>>, lang |-> EnUS, default |-> TRUE]
GoogleUS ==
  [name |-> <<71, 111, 111, 103, 108, 101, 32, 85, 83, 32, 69, 110, 103, 108, 105, 115, 104>>,
   lang |-> EnUS, default |-> FALSE]
Nanami ==
  [name |-> <<77, 105, 99, 114, 111, 115, 111, 102, 116, 32, 78, 97, 110, 97, 109, 105, 32,
              79, 110, 108, 105, 110, 101, 32, 40, 78, 97, 116, 117, 114, 97, 108, 41>>,
   lang |-> JaJP, default |-> FALSE]

\* "Otoya"
Otoya ==
  [name |-> <<79, 116, 111, 121, 97>>, lang |-> JaJP, default |-> FALSE]

\* The voice lists getVoices() can return: empty until the engine has loaded
\* them, then a list the engine may refresh.
VoiceLists == {<<>>, <<Kyoko, Samantha>>, <<Samantha, GoogleUS, Nanami, Kyoko>>}

\* tts.ts pickVoice: the score of a voice
score(v) ==
  LET name == toLowerCase(v.name)
      w(p, n) == IF includes(name, p) THEN n ELSE 0
  IN  w(<<110, 97, 116, 117, 114, 97, 108>>, 50)                  \* natural
    + w(<<110, 101, 117, 114, 97, 108>>, 45)                      \* neural
    + w(<<103, 111, 111, 103, 108, 101>>, 35)                     \* google
    + w(<<107, 121, 111, 107, 111>>, 30)                          \* kyoko
    + w(<<111, 116, 111, 121, 97>>, 30)                           \* otoya
    + w(<<110, 97, 110, 97, 109, 105>>, 30)                       \* nanami
    + w(<<109, 105, 99, 114, 111, 115, 111, 102, 116>>, 20)       \* microsoft
    - w(<<99, 111, 109, 112, 97, 99, 116>>, 10)                   \* compact
    - w(<<111, 102, 102, 108, 105, 110, 101>>, 5)                 \* offline
    + (IF v.default THEN 5 ELSE 0)

\* Mutant of SortInsert: the element goes before the elements that compare
\* equal to it (a sort that is not stable).
SortInsertBeforeEqual(s, i, sc) ==
  LET k == Cardinality({j \in 1..Len(s) : sc[s[j]] > sc[i]})
  IN  SubSeq(s, 1, k) \o <<i>> \o SubSeq(s, k + 1, Len(s))

\* Array.prototype.sort with the comparator (a, b) => sc(b) - sc(a), one
\* insertion: s holds the indices placed so far, highest score first; index i
\* goes after every index whose score is not lower (the comparator is <= 0 for
\* them; the sort is stable).
SortInsert(s, i, sc) ==
  LET k == Cardinality({j \in 1..Len(s) : sc[s[j]] >= sc[i]})
  IN  SubSeq(s, 1, k) \o <<i>> \o SubSeq(s, k + 1, Len(s))

\* The sort of the indices 1..n of a copy of the array, by the scores sc
RECURSIVE SortDesc(_, _)
SortDesc(sc, n) ==
  IF n = 0 THEN <<>> ELSE SortInsert(SortDesc(sc, n - 1), n, sc)

\* pool.slice().sort((a, b) => score(b) - score(a))[0]
SortedFirst(pool) ==
  LET sc == [i \in 1..Len(pool) |-> score(pool[i])]
  IN  pool[SortDesc(sc, Len(pool))[1]]

\* tts.ts pickVoice: <<>> is undefined, <<v>> the chosen voice
pickVoice(vs, lang) ==
  IF vs = <<>> THEN <<>>
  ELSE LET want == normLang(lang)
           same(v) == startsWith(normLang(v.lang), want)
           sameLang == SelectSeq(vs, same)
           pool == IF sameLang # <<>> THEN sameLang ELSE vs
       IN  <<SortedFirst(pool)>>

\* tts.ts getCachedVoice: the voice of the current list with the cached name
\* and tag (the voiceURI of a voice is its name in every list modelled here,
\* so the second find never adds a match).
getCachedVoice(cache, vs, lang) ==
  LET key == normLang(lang) IN
  IF key \notin DOMAIN cache THEN <<>>
  ELSE LET c == cache[key]
           hit(v) == v.name = c.name /\ v.lang = c.lang
           found == SelectSeq(vs, hit)
       IN  IF found = <<>> THEN <<>> ELSE <<found[1]>>

\* tts.ts cacheVoice
cacheVoice(cache, lang, v) ==
  [k \in DOMAIN cache \cup {normLang(lang)} |->
     IF k = normLang(lang) THEN [name |-> v.name, lang |-> v.lang] ELSE cache[k]]

\* part_001: String.prototype.replace('_', '-') replaces the first '_' only.
ReplaceUnderscore(s) ==
  IF \E i \in 1..Len(s) : s[i] = 95
    THEN LET k == CHOOSE i \in 1..Len(s) : s[i] = 95 /\ \A j \in 1..(i - 1) : s[j] # 95
         IN  [s EXCEPT ![k] = 45]
    ELSE s

\* part_001 pickVoice: the priority of a voice
getPriorityP1(v) ==
  LET name == toLowerCase(v.name)
      has(p) == includes(name, p)
  IN  (IF has(<<111, 116, 111, 121, 97>>) THEN 1000 ELSE 0)                                  \* otoya
    + (IF has(<<25313, 24373>>) \/ has(<<101, 110, 104, 97, 110, 99, 101, 100>>) \/ has(<<112, 114, 101, 109, 105, 117, 109>>)
         THEN 200 ELSE 0)                                            \* 拡張, enhanced, premium
    + (IF has(<<111, 110, 108, 105, 110, 101>>) \/ has(<<110, 101, 117, 114, 97, 108>>) THEN 100 ELSE 0)                        \* online, neural

\* part_001 pickVoice: <<>> is undefined, <<v>> the chosen voice.  The sort is
\* stable: of the voices with the highest priority the earliest is first.
pickVoiceP1(vs, lang) ==
  IF vs = <<>> THEN <<>>
  ELSE LET targetLang == ReplaceUnderscore(toLowerCase(lang))
           same(v) == startsWith(ReplaceUnderscore(toLowerCase(v.lang)), targetLang)
           pool == SelectSeq(vs, same)
           pr == [i \in 1..Len(pool) |-> getPriorityP1(pool[i])]
       IN  IF pool = <<>> THEN <<>>
           ELSE <<pool[CHOOSE i \in 1..Len(pool) :
                         /\ \A j \in 1..Len(pool) : pr[j] <= pr[i]
                         /\ \A j \in 1..(i - 1) : pr[j] < pr[i]]>>

\* part_004 pickVoice: the priority of a voice
getPriorityP4(v) ==
  LET name == toLowerCase(v.name)
      has(p) == includes(name, p)
  IN  (IF has(<<111, 116, 111, 121, 97>>) THEN 500 ELSE 0)                                   \* otoya
    + (IF has(<<25313, 24373>>) \/ has(<<101, 110, 104, 97, 110, 99, 101, 100>>) \/ has(<<112, 114, 101, 109, 105, 117, 109>>)
         THEN 100 ELSE 0)                                            \* 拡張, enhanced, premium
    + (IF has(<<111, 110, 108, 105, 110, 101>>) \/ has(<<110, 101, 117, 114, 97, 108>>)
           \/ has(<<110, 97, 116, 117, 114, 97, 108>>) THEN 80 ELSE 0)   \* online, neural, natural
    + (IF has(<<103, 111, 111, 103, 108, 101>>) THEN 50 ELSE 0)                               \* google
    + (IF has(<<97, 112, 112, 108, 101>>) THEN 40 ELSE 0)                                     \* apple
    + (IF has(<<109, 105, 99, 114, 111, 115, 111, 102, 116>>) THEN 30 ELSE 0)                 \* microsoft

\* part_004 pickVoice: <<>> is undefined, <<v>> the chosen voice
pickVoiceP4(vs, lang) ==
  IF vs = <<>> THEN <<>>
  ELSE LET targetLang == ReplaceUnderscore(toLowerCase(lang))
           same(v) == startsWith(ReplaceUnderscore(toLowerCase(v.lang)), targetLang)
           sameLang == SelectSeq(vs, same)
           pool == IF sameLang # <<>> THEN sameLang ELSE vs
           pr == [i \in 1..Len(pool) |-> getPriorityP4(pool[i])]
       IN  <<pool[SortDesc(pr, Len(pool))[1]]>>

\* The orderings of a set of voices
Orderings(S) == {f \in [1..Cardinality(S) -> S] : Range(f) = S}

\* The lists getVoices() can return to part_001: the voices a host has
\* installed, in any order.
PickLists == UNION {Orderings(S) : S \in SUBSET {Kyoko, Samantha, GoogleUS, Nanami}}

\* The lists getVoices() can return to pickVoice of tts.ts and part_004
RankLists == UNION {Orderings(S) : S \in SUBSET {Kyoko, Samantha, GoogleUS, Nanami, Otoya}}

\* part_003 pickVoice
pickVoiceP3(vs, lang) ==
  LET lower == toLowerCase(lang)
      google(v) == includes(toLowerCase(v.name), <<103, 111, 111, 103, 108, 101>>)
      microsoft(v) == includes(toLowerCase(v.name), <<109, 105, 99, 114, 111, 115, 111, 102, 116>>)
      starts(v, p) == startsWith(toLowerCase(v.lang), p)
      enus == <<101, 110, 45, 117, 115>>
      jajp == <<106, 97, 45, 106, 112>>
      f1(v) == starts(v, enus) /\ google(v)
      f2(v) == starts(v, enus) /\ microsoft(v)
      f3(v) == starts(v, enus)
      f4(v) == starts(v, En)
      g1(v) == starts(v, jajp) /\ google(v)
      g2(v) == starts(v, jajp)
      g3(v) == starts(v, Ja)
      prefer(arr) == IF arr # <<>> THEN <<arr[1]>> ELSE <<>>
      or(a, b) == IF a # <<>> THEN a ELSE b
  IN  IF startsWith(lower, En)
        THEN or(prefer(SelectSeq(vs, f1)), or(prefer(SelectSeq(vs, f2)),
             or(prefer(SelectSeq(vs, f3)), prefer(SelectSeq(vs, f4)))))
      ELSE IF startsWith(lower, Ja)
        THEN or(prefer(SelectSeq(vs, g1)), or(prefer(SelectSeq(vs, g2)),
                prefer(SelectSeq(vs, g3))))
      ELSE <<>>

----------------------------------------------------------------------------
(* State *)

VARIABLES
  build,        \* which build of utils/tts.ts is running
  apple,        \* isAppleMobile(): the restricted-mobile platform
  voices,       \* what speechSynthesis.getVoices() returns now
  VOICE_CACHE,  \* tts.ts VOICE_CACHE: normLang(lang) -> [name, lang]
  req,          \* the speak calls: position, arguments, promise, utterance,
                \* and (part_004) the callbacks that are pending for the call
  micro,        \* calls whose continuation is a queued microtask
  synth,        \* window.speechSynthesis: utterance queue, cancel events, audible log
  cloud,        \* ttsCloud.ts module state (audioCache is the set of keys of the
                \* Map, bytes its value for each key) and the audio elements and
                \* URLs it made
  utterance,    \* part_005: let utterance
  hist          \* history: submissions, stops, fetches

vars == <<build, apple, voices, VOICE_CACHE, req, micro, synth, cloud, utterance, hist>>

Reqs == 1..MaxReq

\* Texts a caller passes: "", " ", " a", "あ"
Texts == {<<>>, <<32>>, <<32, 97>>, <<12354>>}
\* Texts a caller passes to guessLang: up to two characters of SPACE, "1",
\* "A", "a", "д", "あ", the prolonged sound mark "ー" (U+30FC) and the
\* ideograph "㐀" (U+3400)
GuessChars == {32, 49, 65, 97, 1076, 12354, 12540, 13312}
GuessTexts == {<<>>} \cup {<<c>> : c \in GuessChars}
                \cup {<<c, d>> : c \in GuessChars, d \in GuessChars}
\* Language arguments a caller passes
Langs == {JaJP, EnUS}
\* Language arguments of a voice selection: also a tag no voice has
PickLangs == {JaJP, EnUS, ZhCN}
\* Language hints a caller of a dispatcher passes, or leaves out
Hints == {Undefined, JaJP, EnUS}
\* Voice identifiers a caller of the cloud client passes
VoiceIds == {KeitaNeural}

\* An option the caller left out (opts?.rate is undefined)
Absent == -1

\* a ?? b
Nullish(a, b) == IF a = Absent THEN b ELSE a

\* delayMs is the option of speakCore, delay the time its setTimeout was
\* given (milliseconds).
IdleReq ==
  [pc |-> "idle", text |-> <<>>, lang |-> Undefined, interrupt |-> TRUE,
   detected |-> <<>>, promise |-> "none", utter |-> <<>>, route |-> "none", key |-> <<>>,
   pend |-> [listen |-> FALSE, t350 |-> FALSE, speak |-> 0],
   delayMs |-> Absent, delay |-> 0]

Issued == {r \in Reqs : req[r].pc # "idle"}
NextId == Cardinality(Issued) + 1

\* The builds that never read the voice list start with an empty one.
\* engines says whether the host has a speech engine ('speechSynthesis' in
\* window and SpeechSynthesisUtterance defined).
InitVoices(b, platforms, engines, lists) ==
  /\ build = b
  /\ apple \in platforms
  /\ voices \in lists
  /\ VOICE_CACHE = <<>>
  /\ req = [r \in Reqs |-> IdleReq]
  /\ micro = <<>>
  /\ synth \in {[queue |-> <<>>, canceled |-> {}, log |-> <<>>, supported |-> e] :
                  e \in engines}
  /\ cloud = [audioCache |-> {}, bytes |-> <<>>, currentAudio |-> 0, currentObjectUrl |-> 0, audio |-> 0,
              el |-> [r \in Reqs |-> "none"], listen |-> {},
              url |-> [r \in Reqs |-> "none"], revokes |-> [r \in Reqs |-> 0]]
  /\ utterance = 0
  /\ hist = [submitted |-> <<>>, fetches |-> <<>>, stops |-> 0,
             preStop |-> {}, late |-> {}, stale |-> {}, lastStop |-> <<>>,
             errors |-> {}, blankOver |-> {}, failed |-> {}, stored |-> {},
             picks |-> <<>>, idleCancel |-> {}, noCancel |-> {},
             ready |-> [r \in Reqs |-> 0], guesses |-> <<>>, params |-> <<>>]

InitWith(b, platforms, engines) ==
  InitVoices(b, platforms, engines,
             IF b \in {"tts", "p3"} THEN VoiceLists
             ELSE IF b = "p1" THEN PickLists ELSE {<<>>})

\* A host with a speech engine
InitOn(b, platforms) == InitWith(b, platforms, {TRUE})

\* The builds that never read the platform start on the desktop.
InitBuild(b) == InitOn(b, IF b \in {"tts", "cloud"} THEN {FALSE} ELSE BOOLEAN)

----------------------------------------------------------------------------
(* window.speechSynthesis.  The head of the queue is the utterance being    *)
(* spoken; log records when an utterance becomes audible and when it stops. *)

\* synth.speak(u)
SynthSpeak(s, u) ==
  [s EXCEPT !.queue = Append(@, u),
            !.log = IF s.queue = <<>> THEN Append(@, <<"start", u>>) ELSE @]

\* synth.cancel(): the queue is emptied; every removed utterance gets an
\* error event (delivered later, as a task of its own).
SynthCancel(s) ==
  [s EXCEPT !.queue = <<>>,
            !.canceled = @ \cup Range(s.queue),
            !.log = IF s.queue # <<>> THEN Append(@, <<"end", Head(s.queue)>>) ELSE @]

\* The utterance being spoken ends (or fails): the next one starts.
SynthFinish(s) ==
  [s EXCEPT !.queue = Tail(@),
            !.log = @ \o <<<<"end", Head(s.queue)>>>>
                      \o (IF Len(s.queue) > 1 THEN <<<<"start", s.queue[2]>>>> ELSE <<>>)]

\* A call that asks to interrupt what came before it
Interrupting(rq) == rq.interrupt /\ Trim(rq.text) # <<>>

\* Call r reaches synth.speak or audio.play: history.  It is stale when a
\* later call that interrupts has been issued by then, and late when a stop
\* and an interrupting call after that stop have been issued by then.
Submit(h, r) ==
  [h EXCEPT !.submitted = Append(@, r),
            !.stale = IF \E n \in Issued : n > r /\ Interrupting(req[n]) /\ Interrupting(req[r])
                        THEN @ \cup {r} ELSE @,
            !.late = IF r \in h.preStop /\ \E n \in Issued \ h.preStop : Interrupting(req[n])
                       THEN @ \cup {r} ELSE @]

\* What is playing or waiting to play: the engine's queue and the audio
\* elements that play() was called on and that nothing has stopped.
Playing == {a \in Reqs : cloud.el[a] \in {"loading", "playing"}}
ActivePlaybacks == Len(synth.queue) + Cardinality(Playing)

\* Call r returned at its guard for an empty text: history notes whether a
\* playback was in flight then.
NoteBlank(h, r) ==
  [h EXCEPT !.blankOver = IF ActivePlaybacks > 0 THEN @ \cup {r} ELSE @]

\* Call r, about to make its utterance, has or has not called synth.cancel():
\* history notes a cancel called on the restricted-mobile platform while the
\* engine was neither speaking nor pending, and a cancel left out by a call
\* that asked to interrupt, on another platform or while the engine was busy.
NoteCancel(h, r, interrupt, called) ==
  LET busy == synth.queue # <<>> IN
  [h EXCEPT !.idleCancel = IF called /\ apple /\ ~busy THEN @ \cup {r} ELSE @,
            !.noCancel = IF interrupt /\ ~called /\ (~apple \/ busy) THEN @ \cup {r} ELSE @]

\* The promise of a call settles, once.
Settle(rq, how) ==
  [rq EXCEPT !.pc = "done", !.promise = IF @ = "pending" THEN how ELSE @]

NewReq(text, lang, interrupt) ==
  [IdleReq EXCEPT !.pc = "called", !.text = text, !.lang = lang,
                  !.interrupt = interrupt, !.promise = "pending"]

----------------------------------------------------------------------------
(* Cloud client A: ttsCloud.ts lines 19-133 *)

\* `${voice}::${text}`
CacheKey(voice, text) == voice \o KeySep \o text

\* HTMLMediaElement.pause(): a pending play() promise is rejected (AbortError)
Pause(st) ==
  CASE st = "loading" -> "aborted"
    [] st = "playing" -> "paused"
    [] OTHER -> st

\* Mutant of cleanupCurrentUrl: the URL is revoked and not forgotten.
cleanupCurrentUrlKeepsUrl(c) ==
  IF c.currentObjectUrl # 0
    THEN [c EXCEPT !.url[c.currentObjectUrl] = "revoked",
                   !.revokes[c.currentObjectUrl] = @ + 1]
    ELSE c

cleanupCurrentUrl(c) ==
  IF c.currentObjectUrl # 0
    THEN [c EXCEPT !.url[c.currentObjectUrl] = "revoked",
                   !.revokes[c.currentObjectUrl] = @ + 1,
                   !.currentObjectUrl = 0]
    ELSE c

stopCloudTts(c) ==
  cleanupCurrentUrl(
    IF c.currentAudio # 0
      THEN [c EXCEPT !.el[c.currentAudio] = Pause(@), !.currentAudio = 0]
      ELSE c)

\* Mutant of CloudEnter: stopCloudTts() runs before the text is checked.
CloudEnterStopFirst(r, rq, text, voice, c, h) ==
  LET t == Trim(text)
      key == CacheKey(voice, t)
      c1 == stopCloudTts(c)
  IN  IF t = <<>>
        THEN /\ req' = [req EXCEPT ![r] = Settle(rq, "resolved")]
             /\ micro' = micro
             /\ cloud' = c1
             /\ hist' = NoteBlank(h, r)
      ELSE IF key \in c1.audioCache
        THEN /\ req' = [req EXCEPT ![r] = [rq EXCEPT !.pc = "micro", !.route = "cloud", !.key = key]]
             /\ micro' = Append(micro, r)
             /\ cloud' = c1
             /\ hist' = h
      ELSE /\ req' = [req EXCEPT ![r] = [rq EXCEPT !.pc = "fetching", !.route = "cloud", !.key = key]]
           /\ micro' = micro
           /\ cloud' = c1
           /\ hist' = [h EXCEPT !.fetches = Append(@, r)]

\* speakViaCloud from its first line to the first await inside fetchMp3: the
\* previous playback is stopped, then either the cache answers (the function
\* resumes in a microtask) or a fetch is issued.
CloudEnter(r, rq, text, voice, c, h) ==
  LET t == Trim(text)
      key == CacheKey(voice, t)
      c1 == stopCloudTts(c)
  IN  IF t = <<>>
        THEN /\ req' = [req EXCEPT ![r] = Settle(rq, "resolved")]
             /\ micro' = micro
             /\ cloud' = c
             /\ hist' = NoteBlank(h, r)
      ELSE IF key \in c1.audioCache
        THEN /\ req' = [req EXCEPT ![r] = [rq EXCEPT !.pc = "micro", !.route = "cloud", !.key = key]]
             /\ micro' = Append(micro, r)
             /\ cloud' = c1
             /\ hist' = h
      ELSE /\ req' = [req EXCEPT ![r] = [rq EXCEPT !.pc = "fetching", !.route = "cloud", !.key = key]]
           /\ micro' = micro
           /\ cloud' = c1
           /\ hist' = [h EXCEPT !.fetches = Append(@, r)]

\* speakViaCloud from URL.createObjectURL to audio.play()
CloudPlay(c, r) ==
  [c EXCEPT !.url[r] = "live", !.currentObjectUrl = r,
            !.el[r] = "loading", !.currentAudio = r,
            !.listen = @ \cup {r}]

\* onEnded, onError and the catch of audio.play(): the same cleanup
CloudFinished(c, a) ==
  cleanupCurrentUrl(
    [c EXCEPT !.listen = @ \ {a},
              !.currentAudio = IF @ = a THEN 0 ELSE @])

----------------------------------------------------------------------------
(* Cloud client B: ttsCloud.ts lines 135-165 *)

\* stopCloud: pause, src = '', audio = null
stopCloud(c) ==
  IF c.audio # 0
    THEN [c EXCEPT !.el[c.audio] = Pause(@), !.audio = 0]
    ELSE c

\* speakViaCloud(text) up to `await fetch`: no cache, no check of the text
CloudEnterB(r, rq, text, c, h) ==
  /\ micro' = micro
  /\ req' = [req EXCEPT ![r] = [rq EXCEPT !.pc = "fetching", !.route = "cloud", !.key = text]]
  /\ cloud' = stopCloud(c)
  /\ hist' = [h EXCEPT !.fetches = Append(@, r)]

\* from URL.createObjectURL to audio.play()
CloudPlayB(c, r) ==
  [c EXCEPT !.url[r] = "live", !.el[r] = "loading", !.audio = r]

Client == IF build = "p5" THEN "B" ELSE "A"

----------------------------------------------------------------------------
(* The network and the audio elements *)

\* fetch resolves with a 2xx response: `await res.blob()` is next.
FetchOk ==
  /\ micro = <<>>
  /\ \E r \in Reqs :
       /\ req[r].pc = "fetching"
       /\ req' = [req EXCEPT ![r].pc = "blob"]
  /\ UNCHANGED <<build, apple, voices, VOICE_CACHE, micro, synth, cloud, utterance, hist>>

\* Mutant of FetchFail: the failure is swallowed and the call ends well.
FetchFailSwallowed ==
  /\ micro = <<>>
  /\ \E r \in Reqs :
       /\ req[r].pc = "fetching"
       /\ req' = [req EXCEPT ![r] = Settle(@, "resolved")]
       /\ hist' = [hist EXCEPT !.failed = @ \cup {r}]
  /\ UNCHANGED <<build, apple, voices, VOICE_CACHE, micro, synth, cloud, utterance>>

\* fetch rejects, or resolves with a non-2xx response: the function throws.
FetchFail ==
  /\ micro = <<>>
  /\ \E r \in Reqs :
       /\ req[r].pc = "fetching"
       /\ req' = [req EXCEPT ![r] = Settle(@, "rejected")]
       /\ hist' = [hist EXCEPT !.failed = @ \cup {r}]
  /\ UNCHANGED <<build, apple, voices, VOICE_CACHE, micro, synth, cloud, utterance>>

\* audioCache.set(key, blob)
CacheSet(c, key, blob) ==
  [c EXCEPT !.audioCache = @ \cup {key},
            !.bytes = [k \in DOMAIN @ \cup {key} |-> IF k = key THEN blob ELSE @[k]]]

\* res.blob() resolves with one of the contents B the server can send.
\* Client A stores the blob in the cache; both make the object URL and the
\* audio element and call play().
BlobArrives(B) ==
  /\ micro = <<>>
  /\ \E r \in Reqs, blob \in B :
       /\ req[r].pc = "blob"
       /\ req' = [req EXCEPT ![r].pc = "playing"]
       /\ cloud' = IF Client = "A"
                     THEN CloudPlay(CacheSet(cloud, req[r].key, blob), r)
                     ELSE CloudPlayB(cloud, r)
       /\ hist' = [Submit(hist, r) EXCEPT !.stored = IF Client = "A" THEN @ \cup {r} ELSE @]
  /\ UNCHANGED <<build, apple, voices, VOICE_CACHE, micro, synth, utterance>>

\* The server sends the same audio for every request.
BlobDone == BlobArrives({0})

\* The contents the server can send for a request (the worker proxies a
\* speech service: two syntheses of one text need not be the same bytes).
Blobs == {0, 1}

BlobDoneAny == BlobArrives(Blobs)

\* Client A, cache hit: the microtask that resumes speakViaCloud.
CloudHit ==
  /\ build # "tts"
  /\ micro # <<>>
  /\ LET r == Head(micro) IN
       /\ req' = [req EXCEPT ![r].pc = "playing"]
       /\ cloud' = CloudPlay(cloud, r)
       /\ hist' = Submit(hist, r)
  /\ micro' = Tail(micro)
  /\ UNCHANGED <<build, apple, voices, VOICE_CACHE, synth, utterance>>

\* The promise of audio.play() resolves: playback has begun.  Client A does
\* nothing; in client B this ends `await audio.play()`.
PlayStarted ==
  /\ micro = <<>>
  /\ \E a \in Reqs :
       /\ cloud.el[a] = "loading"
       /\ cloud' = [cloud EXCEPT !.el[a] = "playing"]
       /\ req' = IF Client = "B" /\ req[a].pc = "playing"
                   THEN [req EXCEPT ![a] = Settle(@, "resolved")]
                   ELSE req
  /\ UNCHANGED <<build, apple, voices, VOICE_CACHE, micro, synth, utterance, hist>>

\* The promise of audio.play() rejects: the platform blocked the playback, or
\* pause() interrupted the pending play.
PlayRejected ==
  /\ micro = <<>>
  /\ \E a \in Reqs :
       /\ cloud.el[a] \in {"loading", "aborted"}
       /\ LET c1 == [cloud EXCEPT !.el[a] = IF @ = "loading" THEN "blocked" ELSE "paused"]
          IN  cloud' = IF Client = "A" THEN CloudFinished(c1, a) ELSE c1
       /\ req' = IF req[a].pc = "playing"
                   THEN [req EXCEPT ![a] = Settle(@, "rejected")]
                   ELSE req
  /\ UNCHANGED <<build, apple, voices, VOICE_CACHE, micro, synth, utterance, hist>>

\* The audio element fires `ended`.
AudioEnded ==
  /\ micro = <<>>
  /\ \E a \in Reqs :
       /\ cloud.el[a] = "playing"
       /\ LET c1 == [cloud EXCEPT !.el[a] = "ended"]
          IN  IF a \in cloud.listen
                THEN /\ cloud' = CloudFinished(c1, a)
                     /\ req' = [req EXCEPT ![a] = Settle(@, "resolved")]
                ELSE /\ cloud' = c1
                     /\ req' = req
  /\ UNCHANGED <<build, apple, voices, VOICE_CACHE, micro, synth, utterance, hist>>

\* The audio element fires `error`.
AudioError ==
  /\ micro = <<>>
  /\ \E a \in Reqs :
       /\ cloud.el[a] = "playing"
       /\ LET c1 == [cloud EXCEPT !.el[a] = "error"]
          IN  IF a \in cloud.listen
                THEN /\ cloud' = CloudFinished(c1, a)
                     /\ req' = [req EXCEPT ![a] = Settle(@, "rejected")]
                ELSE /\ cloud' = c1
                     /\ req' = req
  /\ UNCHANGED <<build, apple, voices, VOICE_CACHE, micro, synth, utterance, hist>>

----------------------------------------------------------------------------
(* Build "cloud": callers of ttsCloud.ts (client A) itself *)

\* speakViaCloud(text, voice) with a text of T and a voice of V
CloudCallWith(T, V) ==
  /\ build = "cloud"
  /\ NextId <= MaxReq
  /\ \E text \in T, voice \in V :
       CloudEnter(NextId, NewReq(text, voice, TRUE), text, voice, cloud, hist)
  /\ UNCHANGED <<build, apple, voices, VOICE_CACHE, synth, utterance>>

\* speakViaCloud(text, voice) with a text of T
CloudCall(T) == CloudCallWith(T, VoiceIds)

\* Texts and voice identifiers that hold the separator of the cache key:
\* "a", "::a" and "v", "v::"
KeyTexts == {<<97>>, <<58, 58, 97>>}
KeyVoices == {<<118>>, <<118, 58, 58>>}

\* speakViaCloud(text, voice) with any of these texts and voices
CloudSpeakKeys == CloudCallWith(KeyTexts, KeyVoices)

CloudSpeak == CloudCall(Texts)

\* stopCloudTts(), called at most n times
CloudStopUpTo(n) ==
  /\ build = "cloud"
  /\ hist.stops < n
  /\ cloud' = stopCloudTts(cloud)
  /\ hist' = [hist EXCEPT !.stops = @ + 1, !.preStop = Issued,
                          !.lastStop = <<[cancel |-> FALSE, handle |-> cloud'.currentAudio]>>]
  /\ UNCHANGED <<build, apple, voices, VOICE_CACHE, req, micro, synth, utterance>>

\* stopCloudTts()
CloudStop == CloudStopUpTo(MaxStops)

\* stopCloudTts(), which a caller may repeat
CloudStopRepeat == CloudStopUpTo(MaxStopCalls)

----------------------------------------------------------------------------
(* Build "tts": src/src/app/utils/tts.ts *)

\* speakCore up to `await ensureVoicesReady(2000)`.  ensureVoicesReady returns
\* at once when the list is loaded (the await then resumes in a microtask),
\* and otherwise waits for voiceschanged, its poll or its timeout.
SpeakCoreEnterOpts(r, text, lang, interrupt, delayMs) ==
  LET t == Trim(text)
      rq == [NewReq(text, lang, interrupt) EXCEPT !.delayMs = delayMs]
  IN  /\ UNCHANGED <<synth, VOICE_CACHE>>
      /\ IF t = <<>>
            THEN /\ req' = [req EXCEPT ![r] = Settle(rq, "resolved")]
                 /\ micro' = micro
                 /\ hist' = NoteBlank(hist, r)
          ELSE IF ~synth.supported
            THEN /\ req' = [req EXCEPT ![r] = Settle(rq, "resolved")]
                 /\ micro' = micro
                 /\ hist' = hist
          ELSE IF voices # <<>>
            THEN /\ req' = [req EXCEPT ![r] = [rq EXCEPT !.pc = "micro", !.route = "local"]]
                 /\ micro' = Append(micro, r)
                 /\ hist' = hist
          ELSE /\ req' = [req EXCEPT ![r] = [rq EXCEPT !.pc = "waitVoices", !.route = "local"]]
               /\ micro' = micro
               /\ hist' = hist

\* speakCore called without the delayMs option, as every caller of the
\* repository does
SpeakCoreEnter(r, text, lang, interrupt) ==
  SpeakCoreEnterOpts(r, text, lang, interrupt, Absent)

\* Mutant of speakCoreDelay: the delay does not depend on shouldInterrupt.
speakCoreDelayAlways(shouldInterrupt, delayMs) ==
  LET d == Nullish(delayMs, 40) IN IF d > 0 THEN d ELSE 0

\* shouldInterrupt ? Math.max(0, opts?.delayMs ?? 40) : 0
speakCoreDelay(shouldInterrupt, delayMs) ==
  IF shouldInterrupt
    THEN LET d == Nullish(delayMs, 40) IN IF d > 0 THEN d ELSE 0
    ELSE 0

\* speakCore from the cancel to the setTimeout that will call synth.speak.
SpeakCoreResume(r) ==
  LET rq == req[r]
      cached == getCachedVoice(VOICE_CACHE, voices, rq.lang)
      v == IF cached # <<>> THEN cached ELSE pickVoice(voices, rq.lang)
  IN  /\ synth' = IF rq.interrupt THEN SynthCancel(synth) ELSE synth
      /\ hist' = NoteCancel(hist, r, rq.interrupt, rq.interrupt)
      /\ VOICE_CACHE' = IF v # <<>> THEN cacheVoice(VOICE_CACHE, rq.lang, v[1]) ELSE VOICE_CACHE
      /\ req' = [req EXCEPT ![r] = [rq EXCEPT !.pc = "delay",
                                              !.utter = <<[lang |-> rq.lang, voice |-> v]>>,
                                              !.delay = speakCoreDelay(rq.interrupt, rq.delayMs)]]

\* speakText / speakTextAsync with a text of T: the synchronous part of speakCore
TtsCall(T) ==
  /\ build = "tts"
  /\ NextId <= MaxReq
  /\ \E text \in T, lang \in Langs, interrupt \in BOOLEAN :
       SpeakCoreEnter(NextId, text, lang, interrupt)
  /\ UNCHANGED <<build, apple, voices, cloud, utterance>>

TtsSpeak == TtsCall(Texts)

\* The delayMs option a caller can pass: left out, negative, positive
DelayOpts == {Absent, -50, 100}

\* speakText / speakTextAsync with a text that is spoken and any delayMs
TtsSpeakDelayed ==
  /\ build = "tts"
  /\ NextId <= MaxReq
  /\ \E lang \in Langs, interrupt \in BOOLEAN, delayMs \in DelayOpts :
       SpeakCoreEnterOpts(NextId, <<12354>>, lang, interrupt, delayMs)
  /\ UNCHANGED <<build, apple, voices, cloud, utterance>>

\* The microtask that resumes speakCore after ensureVoicesReady returned.
TtsMicro ==
  /\ build = "tts"
  /\ micro # <<>>
  /\ SpeakCoreResume(Head(micro))
  /\ micro' = Tail(micro)
  /\ UNCHANGED <<build, apple, voices, cloud, utterance>>

\* ensureVoicesReady finishes: voiceschanged or the poll saw a loaded list, or
\* the timeout elapsed with the list still empty.  speakCore resumes.
TtsVoicesReady ==
  /\ build = "tts"
  /\ micro = <<>>
  /\ \E r \in Reqs :
       /\ req[r].pc = "waitVoices"
       /\ SpeakCoreResume(r)
  /\ UNCHANGED <<build, apple, voices, micro, cloud, utterance>>

\* Mutant of AwaitUtterance: the promise resolves when synth.speak returns.
AwaitUtteranceNot(rq) == Settle(rq, "resolved")

\* speakCore after synth.speak(utter): the promise stays pending until
\* onend or onerror calls finish.
AwaitUtterance(rq) == [rq EXCEPT !.pc = "speaking"]

\* The setTimeout callback of speakCore: synth.speak(utter)
TtsTimer ==
  /\ build = "tts"
  /\ micro = <<>>
  /\ \E r \in Reqs :
       /\ req[r].pc = "delay"
       /\ synth' = SynthSpeak(synth, r)
       /\ req' = [req EXCEPT ![r] = AwaitUtterance(@)]
       /\ hist' = Submit(hist, r)
  /\ UNCHANGED <<build, apple, voices, VOICE_CACHE, micro, cloud, utterance>>

\* stopTts of tts.ts: the local engine only
TtsStop ==
  /\ build = "tts"
  /\ hist.stops < MaxStops
  /\ synth' = SynthCancel(synth)
  /\ hist' = [hist EXCEPT !.stops = @ + 1, !.preStop = Issued,
                          !.lastStop = <<[cancel |-> TRUE, handle |-> cloud.currentAudio]>>]
  /\ UNCHANGED <<build, apple, voices, VOICE_CACHE, req, micro, cloud, utterance>>

----------------------------------------------------------------------------
(* Build "p3": src/unnamed/part_003 with cloud client A *)

\* new SpeechSynthesisUtterance ... synth.speak(u) inside the promise
P3Utter(rq) ==
  LET lang == IF startsWith(toLowerCase(rq.detected), Ja) THEN JaJP ELSE EnUS
  IN  <<[lang |-> lang, voice |-> pickVoiceP3(voices, lang)]>>

\* speakTextAsync up to its first suspension
P3Enter(r, text, hint, interrupt) ==
  LET t == Trim(text)
      detected == IF hint \notin {Undefined, <<>>} THEN hint ELSE guessLangP3(t, FALSE)
      rq == [NewReq(text, hint, interrupt) EXCEPT !.detected = detected]
      s1 == IF interrupt THEN SynthCancel(synth) ELSE synth
  IN  IF t = <<>>
        THEN /\ req' = [req EXCEPT ![r] = Settle(rq, "resolved")]
             /\ hist' = NoteBlank(hist, r)
             /\ UNCHANGED <<micro, synth, cloud>>
      ELSE IF apple /\ startsWith(toLowerCase(detected), Ja)
        THEN /\ CloudEnter(r, rq, t, KeitaNeural, cloud, hist)
             /\ synth' = synth
      ELSE IF ~synth.supported
        THEN /\ req' = [req EXCEPT ![r] = Settle(rq, "resolved")]
             /\ UNCHANGED <<micro, synth, cloud, hist>>
      ELSE IF voices = <<>>
        THEN /\ req' = [req EXCEPT ![r] = [rq EXCEPT !.pc = "tick", !.route = "local"]]
             /\ synth' = s1
             /\ UNCHANGED <<micro, cloud, hist>>
      ELSE /\ req' = [req EXCEPT ![r] = [rq EXCEPT !.pc = "speaking", !.route = "local",
                                                   !.utter = P3Utter(rq)]]
           /\ synth' = SynthSpeak(s1, r)
           /\ hist' = Submit(hist, r)
           /\ UNCHANGED <<micro, cloud>>

\* speakText / speakTextAsync with a text of T
P3Call(T) ==
  /\ build = "p3"
  /\ NextId <= MaxReq
  /\ \E text \in T, hint \in Hints, interrupt \in BOOLEAN :
       P3Enter(NextId, text, hint, interrupt)
  /\ UNCHANGED <<build, apple, voices, VOICE_CACHE, utterance>>

P3Speak == P3Call(Texts)

\* The setTimeout(0) that waited for the voices: the utterance is spoken.
P3Tick ==
  /\ build = "p3"
  /\ micro = <<>>
  /\ \E r \in Reqs :
       /\ req[r].pc = "tick"
       /\ req' = [req EXCEPT ![r] = [@ EXCEPT !.pc = "speaking", !.utter = P3Utter(req[r])]]
       /\ synth' = SynthSpeak(synth, r)
       /\ hist' = Submit(hist, r)
  /\ UNCHANGED <<build, apple, voices, VOICE_CACHE, micro, cloud, utterance>>

\* stopTts of part_003: the engine and the cloud client
P3Stop ==
  /\ build = "p3"
  /\ hist.stops < MaxStops
  /\ synth' = SynthCancel(synth)
  /\ cloud' = stopCloudTts(cloud)
  /\ hist' = [hist EXCEPT !.stops = @ + 1, !.preStop = Issued,
                          !.lastStop = <<[cancel |-> TRUE, handle |-> cloud'.currentAudio]>>]
  /\ UNCHANGED <<build, apple, voices, VOICE_CACHE, req, micro, utterance>>

----------------------------------------------------------------------------
(* Build "p5": src/unnamed/part_005 with cloud client B *)

\* stopTts of part_005: <<utterance, synth, cloud, cancel called>> afterwards
stopTtsP5(u, s, c) ==
  <<0, IF u # 0 THEN SynthCancel(s) ELSE s, stopCloud(c), u # 0>>

\* speakTextAsync up to its first suspension (`!text` is true of '' only)
P5Enter(r, text, hint, interrupt) ==
  LET st == IF interrupt THEN stopTtsP5(utterance, synth, cloud)
                         ELSE <<utterance, synth, cloud, FALSE>>
      detected == IF hint # Undefined THEN hint ELSE guessLangP5(text)
      rq == [NewReq(text, hint, interrupt) EXCEPT !.detected = detected]
  IN  IF text = <<>>
        THEN /\ req' = [req EXCEPT ![r] = Settle(rq, "resolved")]
             /\ hist' = NoteBlank(hist, r)
             /\ UNCHANGED <<synth, cloud, utterance>>
             /\ micro' = micro
      ELSE IF detected \in {Ja, JaJP} /\ apple
        THEN /\ CloudEnterB(r, rq, text, st[3], hist)
             /\ utterance' = st[1]
             /\ synth' = st[2]
      ELSE IF ~synth.supported
        \* no check: `new SpeechSynthesisUtterance(text)` throws a ReferenceError
        THEN /\ req' = [req EXCEPT ![r] = Settle([rq EXCEPT !.route = "local"], "rejected")]
             /\ utterance' = st[1]
             /\ synth' = st[2]
             /\ cloud' = st[3]
             /\ UNCHANGED <<micro, hist>>
      ELSE /\ utterance' = r
           /\ synth' = SynthSpeak(st[2], r)
           /\ cloud' = st[3]
           /\ req' = [req EXCEPT ![r] =
                        Settle([rq EXCEPT !.route = "local",
                                          !.utter = <<[lang |-> IF detected = En THEN EnUS ELSE JaJP,
                                                       voice |-> <<>>]>>], "resolved")]
           /\ hist' = Submit(hist, r)
           /\ micro' = micro

\* speakText / speakTextAsync
P5Speak ==
  /\ build = "p5"
  /\ NextId <= MaxReq
  /\ \E text \in Texts, hint \in Hints, interrupt \in BOOLEAN :
       P5Enter(NextId, text, hint, interrupt)
  /\ UNCHANGED <<build, apple, voices, VOICE_CACHE>>

\* stopTts of part_005
P5Stop ==
  /\ build = "p5"
  /\ hist.stops < MaxStops
  /\ LET st == stopTtsP5(utterance, synth, cloud) IN
       /\ utterance' = st[1]
       /\ synth' = st[2]
       /\ cloud' = st[3]
       /\ hist' = [hist EXCEPT !.stops = @ + 1, !.preStop = Issued,
                               !.lastStop = <<[cancel |-> st[4], handle |-> st[3].audio]>>]
  /\ UNCHANGED <<build, apple, voices, VOICE_CACHE, req, micro>>

----------------------------------------------------------------------------
(* Build "p6": src/unnamed/part_006 with cloud client A *)

\* speakText up to its first suspension (lang.startsWith('ja') reads the tag
\* as it was passed)
P6Enter(r, text, lang, interrupt) ==
  LET t == Trim(text)
      rq == [NewReq(text, lang, interrupt) EXCEPT !.detected = lang]
      s1 == IF interrupt THEN SynthCancel(synth) ELSE synth
      c1 == IF interrupt THEN stopCloudTts(cloud) ELSE cloud
  IN  IF t = <<>>
        THEN /\ req' = [req EXCEPT ![r] = Settle(rq, "resolved")]
             /\ hist' = NoteBlank(hist, r)
             /\ UNCHANGED <<micro, synth, cloud>>
      ELSE IF apple /\ startsWith(lang, Ja)
        THEN /\ CloudEnter(r, rq, t, KeitaNeural, c1, hist)
             /\ synth' = s1
      ELSE IF ~synth.supported
        THEN /\ req' = [req EXCEPT ![r] = Settle(rq, "resolved")]
             /\ synth' = s1
             /\ cloud' = c1
             /\ UNCHANGED <<micro, hist>>
      ELSE /\ req' = [req EXCEPT ![r] =
                        Settle([rq EXCEPT !.route = "local",
                                          !.utter = <<[lang |-> lang, voice |-> <<>>]>>], "resolved")]
           /\ synth' = SynthSpeak(s1, r)
           /\ cloud' = c1
           /\ hist' = Submit(hist, r)
           /\ micro' = micro

\* speakText / speakTextAsync with a text of T
P6Call(T) ==
  /\ build = "p6"
  /\ NextId <= MaxReq
  /\ \E text \in T, lang \in Langs, interrupt \in BOOLEAN :
       P6Enter(NextId, text, lang, interrupt)
  /\ UNCHANGED <<build, apple, voices, VOICE_CACHE, utterance>>

P6Speak == P6Call(Texts)

\* stopTts of part_006: the engine and the cloud client
P6Stop ==
  /\ build = "p6"
  /\ hist.stops < MaxStops
  /\ synth' = SynthCancel(synth)
  /\ cloud' = stopCloudTts(cloud)
  /\ hist' = [hist EXCEPT !.stops = @ + 1, !.preStop = Issued,
                          !.lastStop = <<[cancel |-> TRUE, handle |-> cloud'.currentAudio]>>]
  /\ UNCHANGED <<build, apple, voices, VOICE_CACHE, req, micro, utterance>>

----------------------------------------------------------------------------
(* Build "p2": src/unnamed/part_002 with cloud client A *)

\* speakText up to its first suspension
P2Enter(r, text, lang, interrupt) ==
  LET t == Trim(text)
      rq == [NewReq(text, lang, interrupt) EXCEPT !.detected = lang]
      s1 == IF interrupt THEN SynthCancel(synth) ELSE synth
  IN  IF t = <<>>
        THEN /\ req' = [req EXCEPT ![r] = Settle(rq, "resolved")]
             /\ hist' = NoteBlank(hist, r)
             /\ UNCHANGED <<micro, synth, cloud>>
      ELSE IF apple /\ startsWith(lang, Ja)
        THEN /\ CloudEnter(r, rq, t, KeitaNeural, cloud, hist)
             /\ synth' = synth
      ELSE IF ~synth.supported
        THEN /\ req' = [req EXCEPT ![r] = Settle(rq, "resolved")]
             /\ UNCHANGED <<micro, synth, cloud, hist>>
      ELSE /\ req' = [req EXCEPT ![r] =
                        Settle([rq EXCEPT !.route = "local",
                                          !.utter = <<[lang |-> lang, voice |-> <<>>]>>], "resolved")]
           /\ synth' = SynthSpeak(s1, r)
           /\ hist' = Submit(hist, r)
           /\ UNCHANGED <<micro, cloud>>

\* speakText / speakTextAsync
P2Speak ==
  /\ build = "p2"
  /\ NextId <= MaxReq
  /\ \E text \in Texts, lang \in Langs, interrupt \in BOOLEAN :
       P2Enter(NextId, text, lang, interrupt)
  /\ UNCHANGED <<build, apple, voices, VOICE_CACHE, utterance>>

\* stopTts of part_002: the local engine only
P2Stop ==
  /\ build = "p2"
  /\ hist.stops < MaxStops
  /\ synth' = SynthCancel(synth)
  /\ hist' = [hist EXCEPT !.stops = @ + 1, !.preStop = Issued,
                          !.lastStop = <<[cancel |-> TRUE, handle |-> cloud.currentAudio]>>]
  /\ UNCHANGED <<build, apple, voices, VOICE_CACHE, req, micro, cloud, utterance>>

----------------------------------------------------------------------------
(* Build "p4": speakText of src/unnamed/part_004.  speakText returns at once *)
(* (its call is settled when it returns); what it left behind is in pend:    *)
(* the voiceschanged listener, the setTimeout(handler, 350) and the number   *)
(* of setTimeout callbacks of doSpeak that are still to run.                 *)

\* assignVoiceAndSpeak for the utterance of rq, up to the setTimeout of
\* doSpeak: <<rq, VOICE_CACHE>> afterwards.  getCachedVoice and cacheVoice of
\* part_004 (lines 65-75) are those of tts.ts without the voiceURI.
P4Assign(rq, cache, vs) ==
  LET cached == getCachedVoice(cache, vs, rq.lang)
      v == IF cached # <<>> THEN cached ELSE pickVoiceP4(vs, rq.lang)
  IN  <<[rq EXCEPT !.utter = IF v # <<>> THEN <<[lang |-> v[1].lang, voice |-> v]>> ELSE @,
                   !.pend.speak = @ + 1],
        IF v # <<>> THEN cacheVoice(cache, rq.lang, v[1]) ELSE cache>>

\* handler: removeEventListener, then assignVoiceAndSpeak
P4Handler(rq, cache, vs) ==
  P4Assign([rq EXCEPT !.pend.listen = FALSE], cache, vs)

\* speakText from its first line to its return
P4Enter(r, text, lang, interrupt) ==
  LET t == Trim(text)
      busy == synth.queue # <<>>
      shouldInterrupt == interrupt /\ ~(apple /\ ~busy)
      rq == Settle([NewReq(text, lang, interrupt) EXCEPT
                      !.route = "local", !.utter = <<[lang |-> lang, voice |-> <<>>]>>],
                   "resolved")
      as == P4Assign(rq, VOICE_CACHE, voices)
  IN  IF t = <<>>
        THEN /\ req' = [req EXCEPT ![r] = Settle(NewReq(text, lang, interrupt), "resolved")]
             /\ hist' = NoteBlank(hist, r)
             /\ UNCHANGED <<synth, VOICE_CACHE>>
      ELSE IF ~synth.supported
        THEN /\ req' = [req EXCEPT ![r] = Settle(NewReq(text, lang, interrupt), "resolved")]
             /\ UNCHANGED <<synth, VOICE_CACHE, hist>>
      ELSE /\ synth' = IF shouldInterrupt THEN SynthCancel(synth) ELSE synth
           /\ hist' = NoteCancel(hist, r, interrupt, shouldInterrupt)
           /\ IF voices # <<>>
                THEN /\ req' = [req EXCEPT ![r] = as[1]]
                     /\ VOICE_CACHE' = as[2]
                ELSE /\ req' = [req EXCEPT ![r] =
                                  [rq EXCEPT !.pend.listen = TRUE, !.pend.t350 = TRUE]]
                     /\ VOICE_CACHE' = VOICE_CACHE

\* speakText(text, lang, opts)
P4Speak ==
  /\ build = "p4"
  /\ NextId <= MaxReq
  /\ \E text \in Texts, lang \in Langs, interrupt \in BOOLEAN :
       P4Enter(NextId, text, lang, interrupt)
  /\ UNCHANGED <<build, apple, voices, micro, cloud, utterance>>

\* The voiceschanged event is dispatched to the listeners of the calls
\* 1..n, in the order they were added: <<req, VOICE_CACHE, ready>> afterwards.
RECURSIVE P4Dispatch(_, _)
P4Dispatch(n, vs) ==
  IF n = 0 THEN <<req, VOICE_CACHE, hist.ready>>
  ELSE LET st == P4Dispatch(n - 1, vs)
           h == P4Handler(st[1][n], st[2], vs)
       IN  IF st[1][n].pend.listen
             THEN <<[st[1] EXCEPT ![n] = h[1]], h[2], [st[3] EXCEPT ![n] = @ + 1]>>
             ELSE st

\* The engine loads or refreshes its voice list and fires voiceschanged.
P4VoicesChanged ==
  /\ build = "p4"
  /\ \E vs \in VoiceLists \ {<<>>, voices} :
       /\ voices' = vs
       /\ LET st == P4Dispatch(MaxReq, vs) IN
            /\ req' = st[1]
            /\ VOICE_CACHE' = st[2]
            /\ hist' = [hist EXCEPT !.ready = st[3]]
  /\ UNCHANGED <<build, apple, micro, synth, cloud, utterance>>

\* The callback of setTimeout(handler, 350) runs.
P4Timeout ==
  /\ build = "p4"
  /\ \E r \in Reqs :
       /\ req[r].pend.t350
       /\ LET h == P4Handler([req[r] EXCEPT !.pend.t350 = FALSE], VOICE_CACHE, voices) IN
            /\ req' = [req EXCEPT ![r] = h[1]]
            /\ VOICE_CACHE' = h[2]
       /\ hist' = [hist EXCEPT !.ready[r] = @ + 1]
  /\ UNCHANGED <<build, apple, voices, micro, synth, cloud, utterance>>

\* The setTimeout callback of doSpeak: on the restricted-mobile platform a
\* speaking engine is canceled once more, then synth.speak(utter).
P4Timer ==
  /\ build = "p4"
  /\ \E r \in Reqs :
       /\ req[r].pend.speak > 0
       /\ req' = [req EXCEPT ![r].pend.speak = @ - 1]
       /\ synth' = SynthSpeak(IF apple /\ synth.queue # <<>> THEN SynthCancel(synth) ELSE synth, r)
       /\ hist' = Submit(hist, r)
  /\ UNCHANGED <<build, apple, voices, VOICE_CACHE, micro, cloud, utterance>>

\* stopTts of part_004: the local engine only
P4Stop ==
  /\ build = "p4"
  /\ hist.stops < MaxStops
  /\ synth' = SynthCancel(synth)
  /\ hist' = [hist EXCEPT !.stops = @ + 1, !.preStop = Issued,
                          !.lastStop = <<[cancel |-> TRUE, handle |-> cloud.currentAudio]>>]
  /\ UNCHANGED <<build, apple, voices, VOICE_CACHE, req, micro, cloud, utterance>>

----------------------------------------------------------------------------
(* The engine's events *)

\* What a build's onend / onerror handlers do to the call that made the
\* utterance.  part_005 and part_006 attach no handler.
OnUtterEvent(rq, kind) ==
  CASE build = "tts" -> IF rq.pc = "speaking" THEN Settle(rq, "resolved") ELSE rq
    [] build = "p3" ->
         IF rq.pc = "speaking"
           THEN Settle(rq, IF kind = "end" THEN "resolved" ELSE "rejected")
           ELSE rq
    [] OTHER -> rq

\* The utterance being spoken ends.
EngineEnd ==
  /\ micro = <<>>
  /\ synth.queue # <<>>
  /\ synth' = SynthFinish(synth)
  /\ req' = [req EXCEPT ![Head(synth.queue)] = OnUtterEvent(@, "end")]
  /\ UNCHANGED <<build, apple, voices, VOICE_CACHE, micro, cloud, utterance, hist>>

\* The utterance being spoken fails.
EngineError ==
  /\ micro = <<>>
  /\ synth.queue # <<>>
  /\ synth' = SynthFinish(synth)
  /\ req' = [req EXCEPT ![Head(synth.queue)] = OnUtterEvent(@, "error")]
  /\ hist' = [hist EXCEPT !.errors = @ \cup {Head(synth.queue)}]
  /\ UNCHANGED <<build, apple, voices, VOICE_CACHE, micro, cloud, utterance>>

\* The error event of an utterance that cancel() removed is delivered.
EngineCanceled ==
  /\ micro = <<>>
  /\ \E u \in synth.canceled :
       /\ synth' = [synth EXCEPT !.canceled = @ \ {u}]
       /\ req' = [req EXCEPT ![u] = OnUtterEvent(@, "error")]
  /\ UNCHANGED <<build, apple, voices, VOICE_CACHE, micro, cloud, utterance, hist>>

\* The engine loads or refreshes its voice list.
VoicesChanged ==
  /\ micro = <<>>
  /\ \E vs \in VoiceLists \ {<<>>, voices} : voices' = vs
  /\ UNCHANGED <<build, apple, VOICE_CACHE, req, micro, synth, cloud, utterance, hist>>

----------------------------------------------------------------------------
(* Build "p1": the voice selection of src/unnamed/part_001 *)

\* speakText / speakTextAsync reach `const v = pickVoice(lang)`: history
\* records the language asked for, the list getVoices() returned and the
\* voice chosen.
P1Pick ==
  /\ build = "p1"
  /\ Len(hist.picks) < MaxPicks
  /\ \E lang \in Langs :
       hist' = [hist EXCEPT !.picks =
                  Append(@, [lang |-> lang, list |-> voices, voice |-> pickVoiceP1(voices, lang)])]
  /\ UNCHANGED <<build, apple, voices, VOICE_CACHE, req, micro, synth, cloud, utterance>>

\* The engine hands out the same voices in another order.
P1Reorder ==
  /\ build = "p1"
  /\ \E vs \in Orderings(Range(voices)) \ {voices} : voices' = vs
  /\ UNCHANGED <<build, apple, VOICE_CACHE, req, micro, synth, cloud, utterance, hist>>

----------------------------------------------------------------------------
(* The voice ranking of tts.ts and of src/unnamed/part_004 *)

\* pickVoice(lang) of tts.ts is called: it sorts a copy of the list it
\* filtered (pool.slice()), so getVoices() returns afterwards what it
\* returned before.  History records the call.
TtsPick ==
  /\ build = "tts"
  /\ Len(hist.picks) < MaxPicks
  /\ voices' = voices
  /\ \E lang \in PickLangs :
       hist' = [hist EXCEPT !.picks =
                  Append(@, [lang |-> lang, list |-> voices, after |-> voices',
                             voice |-> pickVoice(voices, lang)])]
  /\ UNCHANGED <<build, apple, VOICE_CACHE, req, micro, synth, cloud, utterance>>

\* pickVoice(lang) of part_004 is called: it sorts the copy [...pool].
P4Pick ==
  /\ build = "p4"
  /\ Len(hist.picks) < MaxPicks
  /\ voices' = voices
  /\ \E lang \in PickLangs :
       hist' = [hist EXCEPT !.picks =
                  Append(@, [lang |-> lang, list |-> voices, after |-> voices',
                             voice |-> pickVoiceP4(voices, lang)])]
  /\ UNCHANGED <<build, apple, VOICE_CACHE, req, micro, synth, cloud, utterance>>

----------------------------------------------------------------------------
(* The parameters of an utterance in tts.ts and src/unnamed/part_001.  Rate, *)
(* pitch and volume are in hundredths (0.95 is 95).                          *)

\* The options a caller passes: each of rate, pitch and volume left out or
\* given (0 is a value `??` keeps)
Opts == [rate : {Absent, 0, 150}, pitch : {Absent, 0, 150}, volume : {Absent, 0, 50}]

\* tts.ts speakCore: utter.volume, utter.rate, utter.pitch
speakCoreParams(lang, opts) ==
  LET isJa == startsWith(normLang(lang), Ja)
      isEn == startsWith(normLang(lang), En)
  IN  [volume |-> Nullish(opts.volume, 100),
       rate |-> Nullish(opts.rate, IF isJa THEN 95 ELSE IF isEn THEN 95 ELSE 100),
       pitch |-> Nullish(opts.pitch, 100)]

\* part_001 speakText: utter.volume, utter.rate, utter.pitch
speakTextParamsP1(lang, opts) ==
  [volume |-> Nullish(opts.volume, 100),
   rate |-> Nullish(opts.rate, 100),
   pitch |-> Nullish(opts.pitch, 100)]

\* An utterance is made for a call with the language lang and the options
\* opts: history records what the utterance was given.
Uttered(lang, opts, u) ==
  /\ Len(hist.params) < MaxUtter
  /\ hist' = [hist EXCEPT !.params = Append(@, [lang |-> lang, opts |-> opts, utter |-> u])]
  /\ UNCHANGED <<build, apple, voices, VOICE_CACHE, req, micro, synth, cloud, utterance>>

TtsUtter ==
  /\ build = "tts"
  /\ \E lang \in PickLangs, opts \in Opts : Uttered(lang, opts, speakCoreParams(lang, opts))

P1Utter ==
  /\ build = "p1"
  /\ \E lang \in PickLangs, opts \in Opts : Uttered(lang, opts, speakTextParamsP1(lang, opts))

----------------------------------------------------------------------------
(* guessLang of every build.  History records the text, the preferJa option *)
(* and the tag returned.                                                    *)

Guessed(text, preferJa, lang) ==
  /\ Len(hist.guesses) < MaxGuess
  /\ hist' = [hist EXCEPT !.guesses =
                Append(@, [text |-> text, preferJa |-> preferJa, lang |-> lang])]
  /\ UNCHANGED <<build, apple, voices, VOICE_CACHE, req, micro, synth, cloud, utterance>>

\* guessLang(text, { preferJa }) of tts.ts
TtsGuess ==
  /\ build = "tts"
  /\ \E text \in GuessTexts, preferJa \in BOOLEAN :
       Guessed(text, preferJa, guessLang(text, preferJa))

\* guessLang(text) of part_002
P2Guess ==
  /\ build = "p2"
  /\ \E text \in GuessTexts : Guessed(text, FALSE, guessLangP2(text))

\* guessLang(text, { preferJa }) of part_003
P3Guess ==
  /\ build = "p3"
  /\ \E text \in GuessTexts, preferJa \in BOOLEAN :
       Guessed(text, preferJa, guessLangP3(text, preferJa))

\* guessLang(text, { preferJa }) of part_005: the options are not read
P5Guess ==
  /\ build = "p5"
  /\ \E text \in GuessTexts, preferJa \in BOOLEAN :
       Guessed(text, preferJa, guessLangP5(text))

\* guessLang(text) of part_006
P6Guess ==
  /\ build = "p6"
  /\ \E text \in GuessTexts : Guessed(text, FALSE, guessLangP6(text))

----------------------------------------------------------------------------
(* Specifications *)

NextUtter == TtsUtter \/ P1Utter

\* The utterances tts.ts and part_001 make
SpecUtter ==
  /\ InitVoices("tts", {FALSE}, {TRUE}, {<<>>}) \/ InitVoices("p1", {FALSE}, {TRUE}, {<<>>})
  /\ [][NextUtter]_vars

NextGuess == TtsGuess \/ P2Guess \/ P3Guess \/ P5Guess \/ P6Guess

\* guessLang calls in each build
SpecGuess ==
  /\ \/ InitOn("tts", {FALSE}) \/ InitOn("p2", {FALSE}) \/ InitOn("p3", {FALSE})
     \/ InitOn("p5", {FALSE}) \/ InitOn("p6", {FALSE})
  /\ [][NextGuess]_vars

NextRank == TtsPick \/ P4Pick

\* Voice selections of tts.ts and part_004 over the lists a host can return
SpecRank ==
  /\ InitVoices("tts", {FALSE}, {TRUE}, RankLists) \/ InitVoices("p4", {FALSE}, {TRUE}, RankLists)
  /\ [][NextRank]_vars

NextPickP1 == P1Pick \/ P1Reorder

SpecPickP1 == InitOn("p1", {FALSE}) /\ [][NextPickP1]_vars

NextTts ==
  \/ TtsSpeak \/ TtsMicro \/ TtsVoicesReady \/ TtsTimer \/ TtsStop
  \/ EngineEnd \/ EngineError \/ EngineCanceled \/ VoicesChanged

SpecTts == InitBuild("tts") /\ [][NextTts]_vars

\* tts.ts on a restricted-mobile device (iPhone, iPad)
SpecTtsMobile == InitOn("tts", {TRUE}) /\ [][NextTts]_vars

\* speakText attaches no handler to its utterance: the end of an utterance
\* and its failure are the same step.
NextP4 ==
  \/ P4Speak \/ P4VoicesChanged \/ P4Timeout \/ P4Timer \/ P4Stop
  \/ EngineEnd \/ EngineCanceled

SpecP4 == InitVoices("p4", BOOLEAN, {TRUE}, VoiceLists) /\ [][NextP4]_vars

\* tts.ts called with the delayMs option
NextTtsDelay ==
  \/ TtsSpeakDelayed \/ TtsMicro \/ TtsVoicesReady \/ TtsTimer
  \/ EngineEnd \/ EngineError \/ EngineCanceled

SpecTtsDelay ==
  InitVoices("tts", {FALSE}, {TRUE}, {<<>>, <<Kyoko, Samantha>>}) /\ [][NextTtsDelay]_vars

\* tts.ts on a host whose engine has one English voice when the page loads
SpecTtsOneVoice ==
  InitVoices("tts", {FALSE}, {TRUE}, {<<>>, <<Samantha>>}) /\ [][NextTts]_vars

NextCloud ==
  \/ CloudSpeak \/ CloudStop \/ CloudHit
  \/ FetchOk \/ FetchFail \/ BlobDone
  \/ PlayStarted \/ PlayRejected \/ AudioEnded \/ AudioError

SpecCloud == InitBuild("cloud") /\ [][NextCloud]_vars

\* Cloud client A when every timer, fetch result and media event that is due
\* is delivered: a microtask runs, a fetch answers (well or not), a blob
\* arrives, a play() promise settles, and a playing element ends or fails.
SpecCloudLive ==
  /\ InitBuild("cloud")
  /\ [][NextCloud]_vars
  /\ WF_vars(CloudHit)
  /\ WF_vars(FetchOk \/ FetchFail)
  /\ WF_vars(BlobDone)
  /\ WF_vars(PlayStarted \/ PlayRejected)
  /\ WF_vars(AudioEnded \/ AudioError)

\* Cloud client A with a server whose answers for one request can differ
NextCloudServer ==
  \/ CloudSpeak \/ CloudStop \/ CloudHit
  \/ FetchOk \/ FetchFail \/ BlobDoneAny
  \/ PlayStarted \/ PlayRejected \/ AudioEnded \/ AudioError

SpecCloudServer == InitBuild("cloud") /\ [][NextCloudServer]_vars

\* Cloud client A with a caller that stops it more than once
NextCloudStops ==
  \/ CloudSpeak \/ CloudStopRepeat \/ CloudHit
  \/ FetchOk \/ FetchFail \/ BlobDone
  \/ PlayStarted \/ PlayRejected \/ AudioEnded \/ AudioError

SpecCloudStops == InitBuild("cloud") /\ [][NextCloudStops]_vars

\* Cloud client A called with texts and voices that hold the key separator
NextCloudKeys ==
  \/ CloudSpeakKeys \/ CloudStop \/ CloudHit
  \/ FetchOk \/ FetchFail \/ BlobDone
  \/ PlayStarted \/ PlayRejected \/ AudioEnded \/ AudioError

SpecCloudKeys == InitBuild("cloud") /\ [][NextCloudKeys]_vars

NextP3 ==
  \/ P3Speak \/ P3Tick \/ P3Stop \/ CloudHit
  \/ FetchOk \/ FetchFail \/ BlobDone
  \/ PlayStarted \/ PlayRejected \/ AudioEnded \/ AudioError
  \/ EngineEnd \/ EngineError \/ EngineCanceled \/ VoicesChanged

SpecP3 == InitBuild("p3") /\ [][NextP3]_vars

NextP5 ==
  \/ P5Speak \/ P5Stop
  \/ FetchOk \/ FetchFail \/ BlobDone
  \/ PlayStarted \/ PlayRejected \/ AudioEnded \/ AudioError
  \/ EngineEnd \/ EngineError \/ EngineCanceled

SpecP5 == InitBuild("p5") /\ [][NextP5]_vars

\* part_005 on a host without a speech engine: the engine fires no event.
NextP5NoEngine ==
  \/ P5Speak \/ P5Stop
  \/ FetchOk \/ FetchFail \/ BlobDone
  \/ PlayStarted \/ PlayRejected \/ AudioEnded \/ AudioError

SpecP5NoEngine == InitWith("p5", BOOLEAN, {FALSE}) /\ [][NextP5NoEngine]_vars

NextP6 ==
  \/ P6Speak \/ P6Stop \/ CloudHit
  \/ FetchOk \/ FetchFail \/ BlobDone
  \/ PlayStarted \/ PlayRejected \/ AudioEnded \/ AudioError
  \/ EngineEnd \/ EngineError \/ EngineCanceled

SpecP6 == InitBuild("p6") /\ [][NextP6]_vars

NextP2 ==
  \/ P2Speak \/ P2Stop \/ CloudHit
  \/ FetchOk \/ FetchFail \/ BlobDone
  \/ PlayStarted \/ PlayRejected \/ AudioEnded \/ AudioError
  \/ EngineEnd \/ EngineError \/ EngineCanceled

SpecP2 == InitBuild("p2") /\ [][NextP2]_vars

\* Calls with an empty text, a whitespace-only text or a text to read, in
\* the builds whose guard is text.trim(): tts.ts, part_006 and cloud client A
\* called directly.  The callers make no stop call, and the engine ends
\* every utterance it is not told to cancel (these builds treat its end and
\* its error event alike).
BlankTexts == {t \in Texts : Len(t) <= 1}

BlankTtsSpeak == TtsCall(BlankTexts)
BlankP6Speak == P6Call(BlankTexts)
BlankCloudSpeak == CloudCall(BlankTexts)

NextBlank ==
  \/ BlankTtsSpeak \/ TtsMicro \/ TtsVoicesReady \/ TtsTimer
  \/ BlankP6Speak \/ BlankCloudSpeak \/ CloudHit
  \/ FetchOk \/ FetchFail \/ BlobDone
  \/ PlayStarted \/ PlayRejected \/ AudioEnded \/ AudioError
  \/ EngineEnd \/ EngineCanceled \/ VoicesChanged

SpecBlank ==
  /\ InitBuild("tts") \/ InitBuild("p6") \/ InitBuild("cloud")
  /\ [][NextBlank]_vars

\* The sequential caller (list autoplay): speakTextAsync for one item after
\* the other, each call made once the promise of the one before has settled,
\* of texts that are not blank, on the desktop (every item goes to the local
\* engine), in tts.ts and part_003.
AllSettled == \A r \in Issued : req[r].promise \in {"resolved", "rejected"}
SpokenTexts == {t \in Texts : Trim(t) # <<>>}

SeqTtsSpeak == AllSettled /\ TtsCall(SpokenTexts)
SeqP3Speak == AllSettled /\ P3Call(SpokenTexts)

NextSeq ==
  \/ SeqTtsSpeak \/ TtsMicro \/ TtsVoicesReady \/ TtsTimer
  \/ SeqP3Speak \/ P3Tick
  \/ EngineEnd \/ EngineError \/ VoicesChanged

SpecSeq ==
  /\ InitOn("tts", {FALSE}) \/ InitOn("p3", {FALSE})
  /\ [][NextSeq]_vars

----------------------------------------------------------------------------
(* Claims *)

Settled(r) == req[r].promise \in {"resolved", "rejected"}

\* C1: of two rapid calls speak("A"), speak("B") that both interrupt, A is
\* never submitted to the engine (or to an audio element) once B has been
\* requested: only B is audible.
C1_OnlyLatestSubmitted == hist.stale = {}

\* C2: after stopTts() and a speak(x) issued after it, no call issued before
\* the stop reaches synth.speak or audio.play.
C2_NothingOlderPlaysAfterStop == hist.late = {}

\* C3: in every reachable state at most one playback is active (spoken or
\* queued by the engine, or playing in an audio element), here even when
\* every call asks to interrupt what came before.
C3_AtMostOneActive ==
  (\A r \in Issued : req[r].interrupt) => ActivePlaybacks <= 1

\* C4: every stopTts() tells the local engine to cancel and leaves the cloud
\* audio handle empty, whatever the module believes to be active.
C4_StopStopsBoth ==
  hist.lastStop # <<>> => hist.lastStop[1].cancel /\ hist.lastStop[1].handle = 0

\* <<start 1, end 1, ..., start n, end n>>
RECURSIVE Intervals(_)
Intervals(n) ==
  IF n = 0 THEN <<>> ELSE Intervals(n - 1) \o <<<<"start", n>>, <<"end", n>>>>

IsPrefix(a, b) == Len(a) <= Len(b) /\ SubSeq(b, 1, Len(a)) = a

\* C5: speakTextAsync called for N items, each call made after the promise of
\* the one before settled, gives N playback intervals in call order that do
\* not overlap, also when the engine reports an error for an item: what has
\* been audible is always a prefix of start 1, end 1, start 2, end 2, ...;
\* once every call has settled every item has had its whole interval; and a
\* call that waits for its utterance has that utterance in the engine.
C5_SequentialIntervals ==
  /\ IsPrefix(synth.log, Intervals(Cardinality(Issued)))
  /\ AllSettled => synth.log = Intervals(Cardinality(Issued))
  /\ \A r \in Issued : req[r].pc = "speaking" => r \in Range(synth.queue)

\* C5 witness: all items were read although the engine failed on the first.
C5_Witness ==
  /\ Issued = Reqs
  /\ AllSettled
  /\ 1 \in hist.errors
  /\ synth.log = Intervals(MaxReq)

\* C6: the promise of a call is not settled while the call's utterance is in
\* the engine's queue or its audio element is playing.
C6_SettledOnlyAfterCompletion ==
  \A r \in Issued : Settled(r) => r \notin Range(synth.queue) /\ r \notin Playing

\* C7: a call with an empty or whitespace-only text submits nothing to the
\* engine, fetches nothing, makes no audio element, and its promise is
\* resolved when the call returns.
C7_BlankTextNoPlayback ==
  \A r \in Issued :
    Trim(req[r].text) = <<>> =>
      /\ req[r].promise = "resolved"
      /\ r \notin Range(hist.submitted)
      /\ r \notin Range(hist.fetches)
      /\ cloud.el[r] = "none"

\* A step that is a call with an empty or whitespace-only text
BlankCall == NextId' = NextId + 1 /\ Trim(req'[NextId].text) = <<>>

\* C8: a call with an empty or whitespace-only text changes nothing but its
\* own (resolved) promise: the engine's queue, the cloud client's handle,
\* URLs, elements and audio cache, and the voice cache stay as they are.
C8_BlankCallIsNoOp ==
  [][BlankCall => UNCHANGED <<synth, cloud, VOICE_CACHE, voices, utterance, micro>>]_vars

\* C8 witness: a blank call was made while a playback was in flight, and the
\* playback is still there.
C8_Witness ==
  \E r \in hist.blankOver : req[r].promise = "resolved" /\ ActivePlaybacks > 0

\* The fetch of call r failed.
FetchFailed(r) == req[r].promise = "rejected" /\ cloud.url[r] = "none"

\* C9: two calls with the same (text, voice) make one fetch, also when the
\* second call is made while the fetch of the first is in flight (a fetch
\* that failed stored nothing, and is not counted).
C9_OneFetchPerKey ==
  \A r, q \in Range(hist.fetches) :
    r # q /\ req[r].key = req[q].key => FetchFailed(r) \/ FetchFailed(q)

\* C10: every object URL is revoked exactly once: a URL that is still live
\* is the one the module holds (so that it will be revoked), no URL is
\* revoked twice, and no URL is revoked while its own audio element plays.
C10_UrlsReleasedOnce ==
  \A r \in Reqs :
    /\ cloud.url[r] = "live" => cloud.currentObjectUrl = r
    /\ cloud.revokes[r] <= 1
    /\ ~(cloud.url[r] = "revoked" /\ r \in Playing)

\* C11: when play() has just been invoked on the audio element of a call
\* (the element is loading), no audio element of another speakViaCloud call
\* is still playing.
C11_PreviousCloudStopped ==
  \A r \in Reqs : cloud.el[r] = "loading" => Playing \subseteq {r}

\* The language a call resolved: its hint or argument, or the guess.
Resolved(r) == IF req[r].detected # <<>> THEN req[r].detected ELSE req[r].lang

IsJapanese(l) == startsWith(toLowerCase(l), Ja)

\* C12: a call with a text to read goes to the cloud client, and never to
\* the local engine, when the platform is restricted-mobile and the resolved
\* language is Japanese; every other call goes to the local engine and
\* issues no fetch.
C12_Routing ==
  \A r \in Issued :
    Trim(req[r].text) # <<>> =>
      IF apple /\ IsJapanese(Resolved(r))
        THEN req[r].route = "cloud" /\ req[r].utter = <<>>
        ELSE req[r].route = "local" /\ r \notin Range(hist.fetches)

\* C13: an error event of the local engine for the utterance of a call makes
\* the promise of that call resolve: it is neither rejected nor left pending.
C13_LocalErrorResolves ==
  \A r \in hist.errors : req[r].promise = "resolved"

\* C14: on a host without a speech engine a call with a text to read that
\* is not sent to the cloud client is a no-op that ends well: its promise
\* resolves, and no utterance is made or submitted.
C14_NoEngineNoOp ==
  ~synth.supported =>
    \A r \in Issued :
      Trim(req[r].text) # <<>> /\ req[r].route # "cloud" =>
        /\ req[r].promise = "resolved"
        /\ req[r].utter = <<>>
        /\ r \notin Range(hist.submitted)

\* How often call r issued a fetch
Fetches(r) == Cardinality({i \in 1..Len(hist.fetches) : hist.fetches[i] = r})

\* C15: a call of the cloud client whose fetch failed (network failure or a
\* non-2xx response) has a rejected promise, fetched once and did not retry,
\* stored nothing in the audio cache (which holds the keys of the calls whose
\* blob arrived, and no other), and has no audio element and no object URL.
C15_FetchFailureRejects ==
  /\ \A r \in hist.failed :
       /\ req[r].promise = "rejected"
       /\ Fetches(r) = 1
       /\ r \notin hist.stored
       /\ cloud.el[r] = "none"
       /\ cloud.url[r] = "none"
  /\ cloud.audioCache = {req[q].key : q \in hist.stored}

\* C15 witness: the fetch of a call failed, the caller asked again for the
\* same text and voice, and that call fetched and stored the audio.
C15_Witness ==
  \E r \in hist.failed, q \in hist.stored :
    req[q].key = req[r].key /\ Fetches(q) = 1

\* C16: speakText is `void speakTextAsync(...)`: it starts the call and drops
\* its promise, so a rejection of that promise is handled by nobody.  The
\* claim is that no failure reaches the caller of speakText, that is, that
\* the promise of a call made through speakText is never rejected.
C16_SpeakTextNeverRejects ==
  \A r \in Issued : req[r].promise # "rejected"

\* C17: when the platform blocked the play attempt of a call, the promise of
\* the call is rejected, and the cloud client holds no audio handle for it
\* and no object URL of it that is not revoked.
C17_BlockedPlayReleases ==
  \A r \in Reqs :
    cloud.el[r] = "blocked" =>
      /\ req[r].promise = "rejected"
      /\ cloud.currentAudio # r /\ cloud.audio # r
      /\ cloud.url[r] # "live"

\* The language tag with case and separator normalised
NormTag(l) == ReplaceUnderscore(toLowerCase(l))

\* C18: two voice selections for the same language key from lists holding
\* the same voices, in whatever order, return the same voice.
C18_SameVoiceOnRepeat ==
  \A i, j \in 1..Len(hist.picks) :
    LET a == hist.picks[i]
        b == hist.picks[j]
    IN  NormTag(a.lang) = NormTag(b.lang) /\ Range(a.list) = Range(b.list)
          => a.voice = b.voice

\* The voices of a list whose normalised tag starts with the target prefix
Matching(list, lang) ==
  {v \in Range(list) : startsWith(NormTag(v.lang), NormTag(lang))}

\* C20: a voice selection returns none exactly when the voice list is empty;
\* it returns one of the voices whose normalised language tag starts with
\* the target prefix when there is one, and a voice of the full list when
\* there is none.
C20_FilterAndFallback ==
  \A i \in 1..Len(hist.picks) :
    LET p == hist.picks[i] IN
      /\ p.voice = <<>> <=> p.list = <<>>
      /\ p.voice # <<>> =>
           IF Matching(p.list, p.lang) # {}
             THEN p.voice[1] \in Matching(p.list, p.lang)
             ELSE p.voice[1] \in Range(p.list)

\* C19: an entry of the voice cache, once stored for a normalised language
\* key, is never changed: no step removes the key or stores another
\* (name, lang) under it.
C19_CacheEntryNeverChanges ==
  [][\A k \in DOMAIN VOICE_CACHE :
       k \in DOMAIN VOICE_CACHE' /\ VOICE_CACHE'[k] = VOICE_CACHE[k]]_vars

\* The score a build gives a voice
RankScore(v) == IF build = "tts" THEN score(v) ELSE getPriorityP4(v)

\* The candidate pool of a selection: the voices of the list whose tag
\* matches, or the whole list when none does
Candidates(list, lang) ==
  IF Matching(list, lang) # {} THEN Matching(list, lang) ELSE Range(list)

\* C21: a voice selection from a list that is not empty returns a candidate
\* whose score is maximal over the candidate pool, and of the candidates with
\* that score the one that comes first in the voice list; the voice list is
\* the same after the selection as before it.
C21_MaxScoreFirstInList ==
  \A n \in 1..Len(hist.picks) :
    LET p == hist.picks[n]
        pool == Candidates(p.list, p.lang)
    IN  /\ p.after = p.list
        /\ p.list # <<>> =>
             /\ p.voice # <<>>
             /\ p.voice[1] \in pool
             /\ \A v \in pool : RankScore(v) <= RankScore(p.voice[1])
             /\ \A i, j \in 1..Len(p.list) :
                  p.list[j] = p.voice[1] /\ i < j /\ p.list[i] \in pool
                    => RankScore(p.list[i]) < RankScore(p.list[j])

\* C21 witness: two candidates had the maximal score, and the selection
\* returned the one that comes first in the list, which is not the first
\* voice of the list.
C21_Witness ==
  \E n \in 1..Len(hist.picks) :
    LET p == hist.picks[n]
        pool == Candidates(p.list, p.lang)
    IN  /\ p.voice # <<>>
        /\ p.list[1] # p.voice[1]
        /\ \E v \in pool : v # p.voice[1] /\ RankScore(v) = RankScore(p.voice[1])

\* C22: an utterance submitted to the local engine with a voice assigned
\* carries the language tag of that voice.
C22_UtteranceTagIsVoiceTag ==
  \A r \in Range(hist.submitted) :
    req[r].utter # <<>> /\ req[r].utter[1].voice # <<>> =>
      req[r].utter[1].lang = req[r].utter[1].voice[1].lang

\* C23: a call that asks to interrupt calls the engine's cancel before its
\* utterance is started, except on the restricted-mobile platform while the
\* engine is neither speaking nor pending, where the cancel is skipped: no
\* call canceled an idle engine on that platform, and no interrupting call
\* left the cancel out on another platform or while the engine was busy.
C23_InterruptPolicy == hist.idleCancel = {} /\ hist.noCancel = {}

\* C24: the wait of a call for the voice list completes once (the code that
\* follows the wait runs at most once for the call), and while the wait of a
\* call has not completed no voice is selected for its utterance.
C24_VoiceWaitCompletesOnce ==
  \A r \in Issued :
    /\ hist.ready[r] <= 1
    /\ req[r].pend.listen /\ req[r].pend.t350 => req[r].utter[1].voice = <<>>

\* A character of the Hiragana block (U+3040-309F), the Katakana block
\* (U+30A0-30FF) or the CJK Unified Ideographs blocks (U+3400-4DBF and
\* U+4E00-9FFF)
JapaneseScript(c) ==
  In(c, 12352, 12447) \/ In(c, 12448, 12543) \/ In(c, 13312, 19903) \/ In(c, 19968, 40959)
HasJapanese(t) == \E i \in 1..Len(t) : JapaneseScript(t[i])
LatinLetter(c) == In(c, 65, 90) \/ In(c, 97, 122)
IsEnglish(l) == startsWith(toLowerCase(l), En)

\* C25: guessLang of tts.ts, part_002 and part_006 returns Japanese for every
\* text with a character of the Hiragana, Katakana or CJK ideograph ranges,
\* and English for every text that is not empty and is made of Latin letters
\* only, when preferJa is not set.
C25_ScriptRules ==
  build \in {"tts", "p2", "p6"} =>
    \A n \in 1..Len(hist.guesses) :
      LET g == hist.guesses[n] IN
        /\ HasJapanese(g.text) => IsJapanese(g.lang)
        /\ (g.text # <<>> /\ ~g.preferJa /\ \A i \in 1..Len(g.text) : LatinLetter(g.text[i]))
             => IsEnglish(g.lang)

\* C26: guessLang of tts.ts and part_005 returns Japanese for every text that
\* is not empty after trimming and has no Japanese-script character when the
\* caller sets preferJa, also when the text has Latin letters.
C26_PreferJaOverride ==
  build \in {"tts", "p5"} =>
    \A n \in 1..Len(hist.guesses) :
      LET g == hist.guesses[n] IN
        (g.preferJa /\ Trim(g.text) # <<>> /\ ~HasJapanese(g.text)) => IsJapanese(g.lang)

\* C27: guessLang of tts.ts, part_005 and part_003 returns Japanese or
\* English for every text, and without preferJa it returns English for every
\* text with no Japanese-script character (digits, punctuation, other
\* scripts, empty and whitespace-only text included).
C27_DefaultIsEnglish ==
  build \in {"tts", "p5", "p3"} =>
    \A n \in 1..Len(hist.guesses) :
      LET g == hist.guesses[n] IN
        /\ IsJapanese(g.lang) \/ IsEnglish(g.lang)
        /\ (~g.preferJa /\ ~HasJapanese(g.text)) => IsEnglish(g.lang)

\* C28: for a call with a text to read and a language hint, the hint decides:
\* the call goes to the cloud client exactly when the platform is
\* restricted-mobile and the hint is Japanese, and an utterance made for the
\* call is Japanese when the hint is Japanese and English when the hint is
\* English, whatever the script of the text.
C28_HintDecides ==
  \A r \in Issued :
    req[r].lang # Undefined /\ Trim(req[r].text) # <<>> =>
      /\ req[r].route = "cloud" <=> (apple /\ IsJapanese(req[r].lang))
      /\ req[r].utter # <<>> =>
           /\ IsJapanese(req[r].utter[1].lang) <=> IsJapanese(req[r].lang)
           /\ IsEnglish(req[r].utter[1].lang) <=> IsEnglish(req[r].lang)

\* C29: the audio cache holds an entry for a key only after a fetch for
\* that key succeeded (its keys are those of the calls whose blob arrived),
\* and an entry, once stored, is never removed and never replaced by other
\* bytes.
C29_CacheEntriesKept ==
  /\ [](DOMAIN cloud.bytes = {req[q].key : q \in hist.stored})
  /\ [][\A k \in DOMAIN cloud.bytes :
          k \in DOMAIN cloud.bytes' /\ cloud.bytes'[k] = cloud.bytes[k]]_vars

\* C30: an utterance made for a call without options has volume 1 and pitch
\* 1.0, and for an English or Japanese request a rate mildly below 1 (at
\* least 0.8 and less than 1); a rate, pitch or volume the caller supplied is
\* the utterance's.
C30_DefaultParameters ==
  \A n \in 1..Len(hist.params) :
    LET p == hist.params[n] IN
      /\ (p.opts.rate = Absent /\ p.opts.pitch = Absent /\ p.opts.volume = Absent) =>
           /\ p.utter.volume = 100
           /\ p.utter.pitch = 100
           /\ (IsJapanese(p.lang) \/ IsEnglish(p.lang)) =>
                (80 <= p.utter.rate /\ p.utter.rate < 100)
      /\ p.opts.rate # Absent => p.utter.rate = p.opts.rate
      /\ p.opts.pitch # Absent => p.utter.pitch = p.opts.pitch
      /\ p.opts.volume # Absent => p.utter.volume = p.opts.volume

\* C31: under fair delivery of fetch results and media events the promise
\* of every call is settled eventually: none stays pending forever, also
\* when a stop or a later call supersedes its playback.
C31_EveryPromiseSettles ==
  \A r \in Reqs : (req[r].promise = "pending") ~> (req[r].promise # "pending")

\* A step that delivers the ended or error event, or the rejection of
\* play(), of the audio element a while a is not the current element
StaleCompletion(a) ==
  /\ cloud.currentAudio # a
  /\ \/ cloud.el[a] = "playing" /\ cloud'.el[a] \in {"ended", "error"}
     \/ cloud.el[a] = "loading" /\ cloud'.el[a] = "blocked"
     \/ cloud.el[a] = "aborted" /\ cloud'.el[a] = "paused"

\* C32: a completion of an audio element that is not the current one leaves
\* the current audio handle and the current object URL as they are, and
\* revokes no URL.
C32_StaleCompletionDiscarded ==
  [][\A a \in Reqs :
       StaleCompletion(a) =>
         /\ cloud'.currentAudio = cloud.currentAudio
         /\ cloud'.currentObjectUrl = cloud.currentObjectUrl
         /\ cloud'.revokes = cloud.revokes]_vars

\* The fetch result of request r arrives in this step, r was awaiting it when
\* stopCloudTts() was last called, and speakViaCloud was not called since.
ResultAfterStop(r) ==
  /\ hist.stops > 0
  /\ Issued = hist.preStop
  /\ req[r].pc \in {"fetching", "blob"}
  /\ req'[r].pc \notin {"fetching", "blob"}

\* C33: when the fetch result of a request that was stopped while awaiting
\* it arrives, and no speak followed the stop, no audio element is created or
\* played and the cloud client stays idle.
C33_StoppedFetchPlaysNothing ==
  [][\A r \in Reqs :
       ResultAfterStop(r) =>
         /\ cloud'.el[r] = "none"
         /\ cloud'.currentAudio = 0
         /\ cloud'.currentObjectUrl = 0]_vars

\* Request r is issued in this step, asks to interrupt and takes the local
\* path: speakTextAsync of part_003 calls synth.cancel() in this step.
CancelStep(r) ==
  /\ req[r].pc = "idle"
  /\ req'[r].pc # "idle"
  /\ req'[r].interrupt
  /\ req'[r].route = "local"

SpeakInvoked(h, r) == \E i \in 1..Len(h.submitted) : h.submitted[i] = r

\* C34: the engine's speak for an interrupting request is invoked in a later
\* step than the request's cancel, never in the same step.
C34_SpeakAfterSeparateStep ==
  [][\A r \in Reqs : CancelStep(r) => ~SpeakInvoked(hist', r)]_vars

\* The name of the voice carries one of the markers enhanced, premium,
\* neural, online, natural.
QualityMarked(v) ==
  LET name == toLowerCase(v.name) IN
  \/ includes(name, <<101, 110, 104, 97, 110, 99, 101, 100>>)
  \/ includes(name, <<112, 114, 101, 109, 105, 117, 109>>)
  \/ includes(name, <<110, 101, 117, 114, 97, 108>>)
  \/ includes(name, <<111, 110, 108, 105, 110, 101>>)
  \/ includes(name, <<110, 97, 116, 117, 114, 97, 108>>)

\* C35: a candidate whose name carries a quality marker is never ranked below
\* a candidate of the same pool that carries none: when the pool of a
\* selection holds a candidate with a quality marker, the candidate ranked
\* first has one, and no candidate without one has a higher score.
C35_QualityMarkersDominate ==
  \A n \in 1..Len(hist.picks) :
    LET p == hist.picks[n]
        pool == Candidates(p.list, p.lang)
    IN  p.voice # <<>> =>
          /\ (\E v \in pool : QualityMarked(v)) => QualityMarked(p.voice[1])
          /\ \A a, b \in pool :
               QualityMarked(a) /\ ~QualityMarked(b) => RankScore(b) <= RankScore(a)

\* The tag of voice v starts with the language key of lang.
TagStartsWith(v, lang) == startsWith(normLang(v.lang), normLang(lang))

\* C36: when the utterance of a request for language key L gets its voice
\* while the current voice list holds a voice whose tag starts with L, the
\* voice assigned has a tag starting with L, whatever was cached for L before.
C36_NoWrongFallbackKept ==
  [][\A r \in Reqs :
       (/\ req[r].utter = <<>>
        /\ req'[r].utter # <<>>
        /\ \E v \in Range(voices) : TagStartsWith(v, req[r].lang))
         => /\ req'[r].utter[1].voice # <<>>
            /\ TagStartsWith(req'[r].utter[1].voice[1], req[r].lang)]_vars

\* Request q was answered by the audio cache: it went the cloud path and
\* issued no fetch.
CacheHit(q) == req[q].route = "cloud" /\ q \notin Range(hist.fetches)

\* C37: the cache key is injective: a request answered by the cache has the
\* voice and the trimmed text of the request that stored the entry.
C37_CacheKeyInjective ==
  \A q \in Issued, r \in hist.stored :
    CacheHit(q) /\ req[q].key = req[r].key =>
      req[q].lang = req[r].lang /\ Trim(req[q].text) = Trim(req[r].text)

\* C38: a local request with interrupt false neither cancels the engine nor
\* delays its playback: the step that prepares its utterance leaves the
\* engine as it is and asks for a delay of 0, and the step that submits it
\* appends it to the engine's queue, behind what is in flight.
C38_NoInterruptNoCancelNoDelay ==
  [][\A r \in Reqs :
       ~req[r].interrupt =>
         /\ req[r].utter = <<>> /\ req'[r].utter # <<>>
               => synth' = synth /\ req'[r].delay = 0
         /\ ~SpeakInvoked(hist, r) /\ SpeakInvoked(hist', r)
               => /\ synth'.queue = Append(synth.queue, r)
                  /\ synth'.canceled = synth.canceled
                  /\ synth.queue # <<>> => synth'.log = synth.log]_vars

\* C38 witness: a request that passed interrupt false and a delayMs of 100
\* was given no delay and waits in the queue behind the utterance in flight.
C38_Witness ==
  \E r \in Reqs :
    /\ ~req[r].interrupt
    /\ req[r].delayMs = 100
    /\ req[r].delay = 0
    /\ Len(synth.queue) = 2
    /\ synth.queue[2] = r

\* C39: every call of stopCloudTts leaves the current audio handle and the
\* current object URL empty and the audio cache as it was; a call made when
\* both are already empty changes nothing, and calling it again on the state
\* it left changes nothing and revokes no URL.
C39_StopIdempotent ==
  [][hist'.stops = hist.stops + 1 =>
       /\ cloud'.currentAudio = 0
       /\ cloud'.currentObjectUrl = 0
       /\ cloud'.audioCache = cloud.audioCache
       /\ cloud'.bytes = cloud.bytes
       /\ cloud.currentAudio = 0 /\ cloud.currentObjectUrl = 0 => cloud' = cloud
       /\ stopCloudTts(cloud') = cloud']_vars

\* C39 witness: stopCloudTts was called twice while the one request made was
\* playing: its element is paused, its URL was revoked once, and its blob is
\* still in the cache.
C39_Witness ==
  /\ hist.stops = 2
  /\ Cardinality(Issued) = 1
  /\ cloud.el[1] = "paused"
  /\ cloud.url[1] = "revoked"
  /\ cloud.revokes[1] = 1
  /\ cloud.audioCache # {}
  /\ cloud.currentAudio = 0
  /\ cloud.currentObjectUrl = 0

====
